---------------------------- MODULE Spec2Model ----------------------------
(***************************************************************************)
(* State-machine model of the hyperchess session servers.                  *)
(*                                                                         *)
(* The repository holds several server programs.  Three of them are        *)
(* modelled here, and `variant' (fixed by Init) says which one is running: *)
(*   "sio" : the socket.io server of src/unnamed/part_002                  *)
(*   "app" : the compiled socket.io server in                              *)
(*           src/chess-app/server/server.ts, lines 643-1136                *)
(*   "ws"  : the WebSocket server of src/websocket-server/src/index.ts     *)
(*                                                                         *)
(* A handler is modelled by an operator ...R that computes, from the       *)
(* current state and the message, the state after the handler and the      *)
(* messages it emits (in order, each with the sockets it is delivered      *)
(* to), and by an action that applies it.                                  *)
(*                                                                         *)
(* Time is counted in abstract ticks (Date.now() is `now'), and the        *)
(* program's time constants are scaled to ticks keeping their order.       *)
(* The rules engine (chess.js) is an external collaborator; it is          *)
(* abstracted by a small game with legal and illegal moves, a mating       *)
(* move, a drawing move and reversible moves.                              *)
(***************************************************************************)
EXTENDS Integers, Sequences, FiniteSets, TLC

\* ------------------------------------------------------------------ bounds
NumSockets == 3      \* Spec: connections ever opened
MaxIds == 2          \* Spec: session ids ever allocated by uuidv4()
MaxLive == 1         \* Spec: sessions alive at the same time
MaxMoves == 2        \* accepted moves per session that are explored
TimeSockets == 2     \* SpecTime: connections ever opened
TimeIds == 2         \* SpecTime: session ids ever allocated
MaxTime == 5         \* SpecTime: last tick of the clock
WsMaxTime == 4       \* SpecWs: last tick of the clock
WsSockets == 2       \* SpecWs: connections ever opened
WsIds == 1           \* SpecWs: game ids the clients name
SweepIds == 2        \* SpecSweep: session ids and live sessions
LiveMaxTime == 6     \* SpecLive: last tick of the clock
LogSockets == 3      \* SpecLog: connections per server
LogIds == 1          \* SpecLog: session ids
RepMoves == 10       \* SpecRep: accepted moves per session that are explored
EndMoves == 4        \* SpecEnd: accepted moves per session that are explored
CapIds == 3          \* SpecCap: session ids

\* ------------------------------------------------------- program constants
\* (scaled: ticks instead of milliseconds, small capacities)
MAX_CONCURRENT_GAMES == 2
MAX_SPECTATORS_PER_GAME == 2
GAME_EXPIRY_TIME == 3
COMPLETED_GAME_EXPIRY_TIME == 1
INACTIVE_GAME_EXPIRY_TIME == 2
INITIAL_TIME == 1

Null == 0            \* null / undefined

VARIABLES
  variant,    \* which server program runs
  now,        \* Date.now()
  connected,  \* sockets currently connected
  nextSock,   \* next fresh socket id
  nextId,     \* next fresh uuid
  games,      \* the registry: Map<string, GameState>
  rooms,      \* socket.io rooms: room name -> sockets in it (no empty rooms)
  clients,    \* "ws" only: the clients map, client id -> {gameId, lastPing}
  logging,    \* are the two logs below kept (fixed by Init)
  accepted,   \* log: per session id, the moves the server accepted, in order
  received    \* log: per subscriber and session id, the move broadcasts
              \* delivered to it since it subscribed, in order

vars == <<variant, now, connected, nextSock, nextId, games, rooms, clients,
          logging, accepted, received>>

\* --------------------------------------------------------- rules engine
\* A position stands for a FEN string: the board (has each side's knight
\* left its home square), the side to move, the number of moves played and
\* whether the game has ended.
StartPos == [wk |-> 0, bk |-> 0, turn |-> "w", ply |-> 0, end |-> "none"]

MoveSpecs == {"n", "q", "d", "z"}

\* chess.move({from, to}) succeeds
Legal(pos, m) ==
  /\ pos.end = "none"
  /\ \/ m = "n"
     \/ m = "q" /\ (IF pos.turn = "w" THEN pos.wk = 1 ELSE pos.bk = 1)
     \/ m = "d" /\ pos.wk = 1 /\ pos.bk = 1

Flip(t) == IF t = "w" THEN "b" ELSE "w"

\* the position after a legal move
ApplyMove(pos, m) ==
  LET moved == IF m = "n"
               THEN IF pos.turn = "w" THEN [pos EXCEPT !.wk = 1 - pos.wk]
                                      ELSE [pos EXCEPT !.bk = 1 - pos.bk]
               ELSE pos
  IN [moved EXCEPT !.turn = Flip(pos.turn),
                   !.ply = @ + 1,
                   !.end = IF m = "q" THEN "mate" ELSE IF m = "d" THEN "draw" ELSE "none"]

IsCheckmate(pos) == pos.end = "mate"
IsDraw(pos) == pos.end = "draw"

\* ------------------------------------------------------------- helpers
\* a GameState without the optional clock field
NoClock == [white |-> 0, black |-> 0, lastMoveTime |-> Null, started |-> FALSE, present |-> FALSE]

\* one emitted message: the event, the sockets it is delivered to, the
\* session it is about and a summary of its payload
Msg(ev, to, g, info) == [ev |-> ev, to |-> to, g |-> g, info |-> info]

\* what a handler does: the registry, the rooms and the uuid counter after
\* it, and the messages it emitted, in order
Result(gs, rs, nid, o) == [games |-> gs, rooms |-> rs, nextId |-> nid, out |-> o]

Del(f, k) == [x \in DOMAIN f \ {k} |-> f[x]]
Put(f, k, v) == [x \in DOMAIN f \cup {k} |-> IF x = k THEN v ELSE f[x]]

\* the sockets in a room: io.to(room)
Room(rs, g) == IF g \in DOMAIN rs THEN rs[g] ELSE {}
\* socket.join(room) and socket.leave(room)
JoinRoom(rs, g, s) == Put(rs, g, Room(rs, g) \cup {s})
LeaveRoom(rs, g, s) == IF Room(rs, g) \ {s} = {} THEN Del(rs, g) ELSE Put(rs, g, Room(rs, g) \ {s})

\* the reconnecting test of joinGame looking at the white seat only
SeatedWhite(game, s) == game.white = s

Seated(game, s) == game.white = s \/ game.black = s

\* ---------------------------------------------------------------- Init
InitOf(v, l) ==
  /\ variant = v
  /\ logging = l
  /\ accepted = <<>>
  /\ received = <<>>
  /\ now = 1
  /\ connected = {}
  /\ nextSock = 1
  /\ nextId = 1
  /\ games = <<>>
  /\ rooms = <<>>
  /\ clients = <<>>

\* the events that carry an accepted move to the subscribers
MoveEvents == {"moveMade", "move", "gameState"}
IsMoveMsg(msg) == msg.ev \in MoveEvents /\ msg.info \in MoveSpecs

Get(f, k) == IF k \in DOMAIN f THEN f[k] ELSE <<>>

\* the move broadcasts among the messages o, as <<session, move number, move>>
MoveCasts(o, gs) ==
  SelectSeq([i \in 1..Len(o) |->
               [g |-> o[i].g, to |-> o[i].to,
                e |-> <<IF IsMoveMsg(o[i]) THEN gs[o[i].g].position.ply ELSE 0, o[i].info>>,
                mv |-> IsMoveMsg(o[i])]],
            LAMBDA c : c.mv)

\* the logs after a handler that emitted o: subsBefore and subsAfter give
\* the subscribers of each session before and after it, gs is the registry
\* after it.  A session's logs end with the session.
Logged(o, gs, ids, subsBefore, subsAfter) ==
  LET casts == MoveCasts(o, gs)
      castsOf(g) == SelectSeq(casts, LAMBDA c : c.g = g)
      entries(g, s) == [i \in 1..Len(SelectSeq(castsOf(g), LAMBDA c : s \in c.to)) |->
                          SelectSeq(castsOf(g), LAMBDA c : s \in c.to)[i].e]
      live == {g \in ids : g \in DOMAIN gs}
  IN /\ accepted' = [g \in live |->
                        Get(accepted, g) \o [i \in 1..Len(castsOf(g)) |-> castsOf(g)[i].e]]
     /\ received' = [p \in {q \in DOMAIN received \cup {<<s, g>> : s \in UNION {subsAfter[x] : x \in live}, g \in live} :
                                q[2] \in live /\ q[1] \in subsAfter[q[2]]} |->
                        (IF p[1] \in subsBefore[p[2]] THEN Get(received, p) ELSE <<>>)
                          \o entries(p[2], p[1])]

\* the state after a handler whose result is r
Apply(r) ==
  /\ games' = r.games
  /\ rooms' = r.rooms
  /\ nextId' = r.nextId
  /\ UNCHANGED clients
  /\ IF logging
     THEN Logged(r.out, r.games, DOMAIN games \cup DOMAIN r.games,
                 [g \in DOMAIN games \cup DOMAIN r.games |-> Room(rooms, g)],
                 [g \in DOMAIN games \cup DOMAIN r.games |-> Room(r.rooms, g)])
     ELSE UNCHANGED <<accepted, received>>

\* A new connection: socket.io gives it a fresh socket.id
Connect(N) ==
  /\ variant # "ws"
  /\ nextSock <= N
  /\ connected' = connected \cup {nextSock}
  /\ nextSock' = nextSock + 1
  /\ UNCHANGED <<variant, logging, now, nextId, games, rooms, clients, accepted, received>>

\* Time passes
Tick(T) ==
  /\ now < T
  /\ now' = now + 1
  /\ UNCHANGED <<variant, logging, connected, nextSock, nextId, games, rooms, clients, accepted, received>>

\* ------------------------------------------------ socket.io server "sio"
NewGame(s, t) ==
  [status |-> "waiting", white |-> s, black |-> Null, spectators |-> <<>>,
   position |-> StartPos, moveHistory |-> <<>>,
   lastActivityTime |-> t, createdAt |-> t,
   clock |-> [white |-> INITIAL_TIME, black |-> INITIAL_TIME,
              lastMoveTime |-> Null, started |-> FALSE, present |-> TRUE]]

\* createGame with the capacity test games.size > MAX_CONCURRENT_GAMES
CreateGameAboveLimit(s) ==
  IF Cardinality(DOMAIN games) > MAX_CONCURRENT_GAMES
  THEN Result(games, rooms, nextId, <<Msg("error", {s}, Null, "capacity")>>)
  ELSE LET rs == JoinRoom(rooms, nextId, s) IN
       Result(Put(games, nextId, NewGame(s, now)), rs, nextId + 1,
              <<Msg("gameCreated", Room(rs, nextId), nextId, "")>>)

\* socket.on('createGame')
CreateGameR(s) ==
  IF Cardinality(DOMAIN games) >= MAX_CONCURRENT_GAMES
  THEN Result(games, rooms, nextId, <<Msg("error", {s}, Null, "capacity")>>)
  ELSE LET rs == JoinRoom(rooms, nextId, s) IN
       Result(Put(games, nextId, NewGame(s, now)), rs, nextId + 1,
              <<Msg("gameCreated", Room(rs, nextId), nextId, "")>>)

CreateGame(s, I, L) ==
  /\ variant = "sio"
  /\ s \in connected
  /\ Cardinality(DOMAIN games) < MAX_CONCURRENT_GAMES =>
        nextId <= I /\ Cardinality(DOMAIN games) < L
  /\ Apply(CreateGameR(s))
  /\ UNCHANGED <<variant, logging, now, connected, nextSock>>

\* joinGame with the spectator test spectators.length > MAX_SPECTATORS_PER_GAME
JoinGameAboveCap(s, g) ==
  IF g \notin DOMAIN games
  THEN Result(games, rooms, nextId, <<Msg("error", {s}, g, "Game not found")>>)
  ELSE LET game == [games[g] EXCEPT !.lastActivityTime = now]
           joined == JoinRoom(rooms, g, s)
       IN
       IF Seated(game, s)
       THEN Result([games EXCEPT ![g] = game], joined, nextId,
                   <<Msg("gameJoined", {s}, g, "")>>)
       ELSE IF game.black # Null /\ game.white # Null
       THEN IF Len(game.spectators) > MAX_SPECTATORS_PER_GAME
            THEN Result([games EXCEPT ![g] = game], rooms, nextId,
                        <<Msg("error", {s}, g, "spectator capacity")>>)
            ELSE Result([games EXCEPT ![g] = [game EXCEPT !.spectators = Append(@, s)]],
                        joined, nextId,
                        <<Msg("gameJoined", {s}, g, "spectator"),
                          Msg("spectatorsUpdate", Room(joined, g), g, "")>>)
       ELSE IF game.black = Null
       THEN Result([games EXCEPT ![g] = [game EXCEPT !.black = s, !.status = "active"]],
                   joined, nextId,
                   <<Msg("gameJoined", {s}, g, ""), Msg("gameState", Room(joined, g), g, "")>>)
       ELSE Result([games EXCEPT ![g] = game], rooms, nextId, <<>>)

\* socket.on('joinGame', gameId)
JoinGameR(s, g) ==
  IF g \notin DOMAIN games
  THEN Result(games, rooms, nextId, <<Msg("error", {s}, g, "Game not found")>>)
  ELSE LET game == [games[g] EXCEPT !.lastActivityTime = now]
           joined == JoinRoom(rooms, g, s)
       IN
       IF Seated(game, s)
       THEN Result([games EXCEPT ![g] = game], joined, nextId,
                   <<Msg("gameJoined", {s}, g, "")>>)
       ELSE IF game.black # Null /\ game.white # Null
       THEN IF Len(game.spectators) >= MAX_SPECTATORS_PER_GAME
            THEN Result([games EXCEPT ![g] = game], rooms, nextId,
                        <<Msg("error", {s}, g, "spectator capacity")>>)
            ELSE Result([games EXCEPT ![g] = [game EXCEPT !.spectators = Append(@, s)]],
                        joined, nextId,
                        <<Msg("gameJoined", {s}, g, "spectator"),
                          Msg("spectatorsUpdate", Room(joined, g), g, "")>>)
       ELSE IF game.black = Null
       THEN Result([games EXCEPT ![g] = [game EXCEPT !.black = s, !.status = "active"]],
                   joined, nextId,
                   <<Msg("gameJoined", {s}, g, ""), Msg("gameState", Room(joined, g), g, "")>>)
       ELSE Result([games EXCEPT ![g] = game], rooms, nextId, <<>>)

JoinGame(s, g) ==
  /\ variant = "sio"
  /\ s \in connected
  /\ Apply(JoinGameR(s, g))
  /\ UNCHANGED <<variant, logging, now, connected, nextSock>>

\* the clock update of makeMove: `turnAfter' is chess.turn() after the move
UpdateClock(clock, turnAfter, t) ==
  IF ~clock.present THEN clock
  ELSE LET elapsed == t - clock.lastMoveTime
           debited == IF clock.lastMoveTime # Null
                      THEN IF turnAfter = "b"
                           THEN [clock EXCEPT !.white = @ - elapsed]
                           ELSE [clock EXCEPT !.black = @ - elapsed]
                      ELSE clock
       IN [debited EXCEPT !.lastMoveTime = t, !.started = TRUE]

\* the status after an accepted move
StatusAfterMove(status, pos) ==
  IF IsCheckmate(pos) THEN "completed"
  ELSE IF IsDraw(pos) THEN "completed"
  ELSE status

\* the game_over event naming the side to move, the mated side, as winner
GameOverMsgsSideToMove(g, pos, to) ==
  IF IsCheckmate(pos)
  THEN <<Msg("game_over", to, g, IF pos.turn = "w" THEN "white" ELSE "black")>>
  ELSE IF IsDraw(pos) THEN <<Msg("game_over", to, g, "draw")>>
  ELSE <<>>

\* the game_over event of makeMove, if any
GameOverMsgs(g, pos, to) ==
  IF IsCheckmate(pos)
  THEN <<Msg("game_over", to, g, IF pos.turn = "w" THEN "black" ELSE "white")>>
  ELSE IF IsDraw(pos) THEN <<Msg("game_over", to, g, "draw")>>
  ELSE <<>>

\* a turn check that lets either seat move
IsSeatedPlayer(game, s) == s \in {game.white, game.black}

\* the turn check of makeMove
IsPlayersTurn(game, s) ==
  \/ game.position.turn = "w" /\ game.white = s
  \/ game.position.turn # "w" /\ game.black = s

\* makeMove emitting 'Not your turn' with io.to(gameId) instead of socket
MakeMoveErrorToRoom(s, g, m) ==
  IF g \notin DOMAIN games
  THEN Result(games, rooms, nextId, <<Msg("error", {s}, g, "Game not found")>>)
  ELSE LET game == games[g] IN
       IF ~IsPlayersTurn(game, s)
       THEN Result(games, rooms, nextId, <<Msg("error", Room(rooms, g), g, "Not your turn")>>)
       ELSE IF ~Legal(game.position, m)
       THEN Result(games, rooms, nextId, <<Msg("error", {s}, g, "Invalid move")>>)
       ELSE LET pos == ApplyMove(game.position, m) IN
            Result([games EXCEPT ![g] =
                      [game EXCEPT !.position = pos,
                                   !.moveHistory = <<m>>,
                                   !.lastActivityTime = now,
                                   !.status = StatusAfterMove(@, pos),
                                   !.clock = UpdateClock(@, pos.turn, now)]],
                   rooms, nextId,
                   <<Msg("moveMade", Room(rooms, g), g, m)>> \o GameOverMsgs(g, pos, Room(rooms, g)))

\* socket.on('makeMove', {gameId, from, to})
MakeMoveR(s, g, m) ==
  IF g \notin DOMAIN games
  THEN Result(games, rooms, nextId, <<Msg("error", {s}, g, "Game not found")>>)
  ELSE LET game == games[g] IN
       IF ~IsPlayersTurn(game, s)
       THEN Result(games, rooms, nextId, <<Msg("error", {s}, g, "Not your turn")>>)
       ELSE IF ~Legal(game.position, m)
       THEN Result(games, rooms, nextId, <<Msg("error", {s}, g, "Invalid move")>>)
       ELSE LET pos == ApplyMove(game.position, m) IN
            Result([games EXCEPT ![g] =
                      [game EXCEPT !.position = pos,
                                   !.moveHistory = <<m>>,
                                   !.lastActivityTime = now,
                                   !.status = StatusAfterMove(@, pos),
                                   !.clock = UpdateClock(@, pos.turn, now)]],
                   rooms, nextId,
                   <<Msg("moveMade", Room(rooms, g), g, m)>> \o GameOverMsgs(g, pos, Room(rooms, g)))

\* the move is accepted by makeMove
Accepts(s, g, m) ==
  /\ g \in DOMAIN games
  /\ IsPlayersTurn(games[g], s)
  /\ Legal(games[g].position, m)

MakeMove(s, g, m) ==
  /\ variant = "sio"
  /\ s \in connected
  /\ Accepts(s, g, m) => games[g].position.ply < MaxMoves
  /\ Apply(MakeMoveR(s, g, m))
  /\ UNCHANGED <<variant, logging, now, connected, nextSock>>

\* a successor session that keeps the seats of the old one
RematchSameSeats(game, t) ==
  [status |-> "active", white |-> game.white, black |-> game.black,
   spectators |-> <<>>, position |-> StartPos, moveHistory |-> <<>>,
   lastActivityTime |-> t, createdAt |-> t, clock |-> NoClock]

\* the successor session of request_rematch: seats swapped, no clock field
RematchGame(game, t) ==
  [status |-> "active", white |-> game.black, black |-> game.white,
   spectators |-> <<>>, position |-> StartPos, moveHistory |-> <<>>,
   lastActivityTime |-> t, createdAt |-> t, clock |-> NoClock]

\* io.sockets.sockets.get(id)?.join(room), for a seat's socket id (or null)
JoinIfConnected(rs, g, id) == IF id # Null /\ id \in connected THEN JoinRoom(rs, g, id) ELSE rs

\* request_rematch without games.delete(gameId)
RequestRematchKeepOld(s, g) ==
  IF g \notin DOMAIN games
  THEN Result(games, rooms, nextId, <<Msg("error", {s}, g, "Game not found")>>)
  ELSE LET game == games[g]
           new == nextId
       IN Result(Put(games, new, RematchGame(game, now)),
                 JoinIfConnected(JoinIfConnected(rooms, new, game.white), new, game.black),
                 nextId + 1,
                 <<Msg("rematchAccepted", Room(rooms, g), new, "")>>)

\* socket.on('request_rematch', {gameId})
RequestRematchR(s, g) ==
  IF g \notin DOMAIN games
  THEN Result(games, rooms, nextId, <<Msg("error", {s}, g, "Game not found")>>)
  ELSE LET game == games[g]
           new == nextId
       IN Result(Del(Put(games, new, RematchGame(game, now)), g),
                 JoinIfConnected(JoinIfConnected(rooms, new, game.white), new, game.black),
                 nextId + 1,
                 <<Msg("rematchAccepted", Room(rooms, g), new, "")>>)

RequestRematch(s, g, I) ==
  /\ variant \in {"sio", "app"}
  /\ s \in connected
  /\ g \in DOMAIN games => nextId <= I
  /\ Apply(RequestRematchR(s, g))
  /\ UNCHANGED <<variant, logging, now, connected, nextSock>>

\* the seats after the socket s gave up its seat, if it holds one
Unseat(game, s) ==
  IF game.white = s THEN [game EXCEPT !.white = Null]
  ELSE IF game.black = s THEN [game EXCEPT !.black = Null]
  ELSE game

ActionTypes == {"resign", "leave_game", "request_rematch"}
Players == {"white", "black"}

\* socket.on('game_action', {type, gameId, player})
GameActionR(s, g, type, player) ==
  IF g \notin DOMAIN games
  THEN Result(games, rooms, nextId, <<Msg("error", {s}, g, "Game not found")>>)
  ELSE LET game == [games[g] EXCEPT !.lastActivityTime = now] IN
       IF type = "resign"
       THEN Result([games EXCEPT ![g] = [game EXCEPT !.status = "completed"]],
                   rooms, nextId,
                   <<Msg("resign", Room(rooms, g), g, IF player = "white" THEN "Black" ELSE "White")>>)
       ELSE IF type = "leave_game"
       THEN LET left == Unseat(game, s)
                rs == LeaveRoom(rooms, g, s)
            IN Result([games EXCEPT ![g] =
                         IF left.white = Null /\ left.black = Null
                         THEN [left EXCEPT !.status = "completed"] ELSE left],
                      rs, nextId, <<Msg("opponent_left", Room(rs, g), g, "")>>)
       ELSE Result([games EXCEPT ![g] = game], rooms, nextId, <<>>)

GameAction(s, g, type, player) ==
  /\ variant = "sio"
  /\ s \in connected
  /\ Apply(GameActionR(s, g, type, player))
  /\ UNCHANGED <<variant, logging, now, connected, nextSock>>

\* leaveGame clearing the sender's seat in every session of the registry
LeaveGameEverywhere(s, g) ==
  IF g \notin DOMAIN games
  THEN Result(games, rooms, nextId, <<>>)
  ELSE LET left == Unseat(games[g], s)
           rs == LeaveRoom(rooms, g, s)
           all == [h \in DOMAIN games |-> Unseat(games[h], s)]
       IN IF left.white = Null /\ left.black = Null
          THEN Result(Del(all, g), rs, nextId, <<>>)
          ELSE Result([all EXCEPT ![g] = [left EXCEPT !.status = "waiting"]],
                      rs, nextId, <<Msg("playerDisconnected", Room(rs, g), g, "")>>)

\* socket.on('leaveGame', {gameId})
LeaveGameR(s, g) ==
  IF g \notin DOMAIN games
  THEN Result(games, rooms, nextId, <<>>)
  ELSE LET left == Unseat(games[g], s)
           rs == LeaveRoom(rooms, g, s)
       IN IF left.white = Null /\ left.black = Null
          THEN Result(Del(games, g), rs, nextId, <<>>)
          ELSE Result([games EXCEPT ![g] = [left EXCEPT !.status = "waiting"]],
                      rs, nextId, <<Msg("playerDisconnected", Room(rs, g), g, "")>>)

LeaveGame(s, g) ==
  /\ variant \in {"sio", "app"}
  /\ s \in connected
  /\ Apply(LeaveGameR(s, g))
  /\ UNCHANGED <<variant, logging, now, connected, nextSock>>

\* Array.indexOf / splice(index, 1): the list without the first s
RECURSIVE RemoveFirst(_, _)
RemoveFirst(seq, s) ==
  IF seq = <<>> THEN <<>>
  ELSE IF Head(seq) = s THEN Tail(seq)
  ELSE <<Head(seq)>> \o RemoveFirst(Tail(seq), s)

InSeq(seq, s) == \E i \in 1..Len(seq) : seq[i] = s

\* one session in the forEach of the disconnect handler
DisconnectGame(game, s) ==
  IF InSeq(game.spectators, s)
  THEN [game EXCEPT !.spectators = RemoveFirst(@, s)]
  ELSE IF Seated(game, s) /\ game.status = "active"
  THEN [game EXCEPT !.status = "completed"]
  ELSE game
\* what that iteration emits; the socket has left its rooms already
DisconnectMsgs(game, g, s, rs) ==
  IF InSeq(game.spectators, s)
  THEN <<Msg("spectatorsUpdate", Room(rs, g), g, "")>>
  ELSE IF Seated(game, s) /\ game.status = "active"
  THEN <<Msg("gameOver", Room(rs, g), g, IF game.white = s THEN "black" ELSE "white")>>
  ELSE <<>>

Min(S) == CHOOSE x \in S : \A y \in S : x <= y

\* the messages of games.forEach, sessions in insertion order
RECURSIVE DisconnectOut(_, _, _)
DisconnectOut(ids, s, rs) ==
  IF ids = {} THEN <<>>
  ELSE LET g == Min(ids) IN
       DisconnectMsgs(games[g], g, s, rs) \o DisconnectOut(ids \ {g}, s, rs)

\* socket.on('disconnect')
DisconnectR(s) ==
  LET rs == [g \in {x \in DOMAIN rooms : rooms[x] # {s}} |-> rooms[g] \ {s}] IN
  Result([g \in DOMAIN games |-> DisconnectGame(games[g], s)], rs, nextId,
         DisconnectOut(DOMAIN games, s, rs))

Disconnect(s) ==
  /\ variant \in {"sio", "app"}
  /\ s \in connected
  /\ connected' = connected \ {s}
  /\ Apply(DisconnectR(s))
  /\ UNCHANGED <<variant, logging, now, nextSock>>

\* a sweep that also deletes a session idle for exactly the inactive limit
ExpiredAtLimit(game, t) ==
  \/ game.status = "completed" /\ t - game.lastActivityTime > COMPLETED_GAME_EXPIRY_TIME
  \/ t - game.lastActivityTime >= INACTIVE_GAME_EXPIRY_TIME
  \/ t - game.createdAt > GAME_EXPIRY_TIME

\* a sweep without the rule on the age of a session
ExpiredByIdleOnly(game, t) ==
  \/ game.status = "completed" /\ t - game.lastActivityTime > COMPLETED_GAME_EXPIRY_TIME
  \/ t - game.lastActivityTime > INACTIVE_GAME_EXPIRY_TIME

\* one session in the forEach of cleanupGames: is it deleted at time t
Expired(game, t) ==
  IF game.status = "completed" /\ t - game.lastActivityTime > COMPLETED_GAME_EXPIRY_TIME
  THEN TRUE
  ELSE IF t - game.lastActivityTime > INACTIVE_GAME_EXPIRY_TIME
  THEN TRUE
  ELSE t - game.createdAt > GAME_EXPIRY_TIME

\* cleanupGames, run by setInterval
CleanupGamesR ==
  Result([g \in {x \in DOMAIN games : ~Expired(games[x], now)} |-> games[g]],
         rooms, nextId, <<>>)

CleanupGames ==
  /\ variant \in {"sio", "app"}
  /\ Apply(CleanupGamesR)
  /\ UNCHANGED <<variant, logging, now, connected, nextSock>>

\* the socket.io server of part_002 with N connections, I ids, L live sessions
NextSio(N, I, L) ==
  \/ Connect(N)
  \/ \E s \in 1..N : CreateGame(s, I, L)
  \/ \E s \in 1..N, g \in 1..I : JoinGame(s, g)
  \/ \E s \in 1..N, g \in 1..I, m \in MoveSpecs : MakeMove(s, g, m)
  \/ \E s \in 1..N, g \in 1..I : RequestRematch(s, g, I)
  \/ \E s \in 1..N, g \in 1..I, ty \in ActionTypes, p \in Players : GameAction(s, g, ty, p)
  \/ \E s \in 1..N, g \in 1..I : LeaveGame(s, g)
  \/ \E s \in 1..N : Disconnect(s)
  \/ CleanupGames

\* the socket.io server of part_002, the clock stopped
Next == NextSio(NumSockets, MaxIds, MaxLive)

Spec == InitOf("sio", FALSE) /\ [][Next]_vars

\* the socket.io server of part_002 and the passage of time
NextTime == Tick(MaxTime) \/ NextSio(TimeSockets, TimeIds, MaxLive)

SpecTime == InitOf("sio", FALSE) /\ [][NextTime]_vars

\* creation, join, resignation and the sweep of part_002 with two live
\* sessions, and the passage of time
NextSweep ==
  \/ Tick(MaxTime)
  \/ Connect(TimeSockets)
  \/ \E s \in 1..TimeSockets : CreateGame(s, SweepIds, SweepIds)
  \/ \E s \in 1..TimeSockets, g \in 1..SweepIds : JoinGame(s, g)
  \/ \E s \in 1..TimeSockets, g \in 1..SweepIds, p \in Players : GameAction(s, g, "resign", p)
  \/ CleanupGames

SpecSweep == InitOf("sio", FALSE) /\ [][NextSweep]_vars

\* a session can still be created or replaced at the current time: the
\* clock of the model stops at LiveMaxTime, and a session is followed for
\* more than GAME_EXPIRY_TIME after its creation
MayCreate == now + GAME_EXPIRY_TIME < LiveMaxTime

\* the socket.io server of part_002, time passing, the sweep run again and
\* again by setInterval
NextLive ==
  \/ Tick(LiveMaxTime)
  \/ Connect(TimeSockets)
  \/ \E s \in 1..TimeSockets : MayCreate /\ CreateGame(s, TimeIds, MaxLive)
  \/ \E s \in 1..TimeSockets, g \in 1..TimeIds : JoinGame(s, g)
  \/ \E s \in 1..TimeSockets, g \in 1..TimeIds, m \in MoveSpecs : MakeMove(s, g, m)
  \/ \E s \in 1..TimeSockets, g \in 1..TimeIds : MayCreate /\ RequestRematch(s, g, TimeIds)
  \/ \E s \in 1..TimeSockets, g \in 1..TimeIds, ty \in ActionTypes, p \in Players :
        GameAction(s, g, ty, p)
  \/ \E s \in 1..TimeSockets, g \in 1..TimeIds : LeaveGame(s, g)
  \/ \E s \in 1..TimeSockets : Disconnect(s)
  \/ CleanupGames

SpecLive ==
  /\ InitOf("sio", FALSE)
  /\ [][NextLive]_vars
  /\ WF_vars(Tick(LiveMaxTime))
  /\ WF_vars(CleanupGames)

\* ------------------------------- compiled socket.io server "app"
\* (src/chess-app/server/server.ts from line 643; its request_rematch,
\* leaveGame, disconnect and cleanupGames are those of part_002)
AppNewGame(s, t) ==
  [status |-> "waiting", white |-> s, black |-> Null, spectators |-> <<>>,
   position |-> StartPos, moveHistory |-> <<>>,
   lastActivityTime |-> t, createdAt |-> t, clock |-> NoClock]

\* socket.on('createGame')
AppCreateGameR(s) ==
  IF Cardinality(DOMAIN games) >= MAX_CONCURRENT_GAMES
  THEN Result(games, rooms, nextId, <<Msg("error", {s}, Null, "capacity")>>)
  ELSE LET rs == JoinRoom(rooms, nextId, s) IN
       Result(Put(games, nextId, AppNewGame(s, now)), rs, nextId + 1,
              <<Msg("gameCreated", Room(rs, nextId), nextId, "")>>)

AppCreateGame(s, I, L) ==
  /\ variant = "app"
  /\ s \in connected
  /\ Cardinality(DOMAIN games) < MAX_CONCURRENT_GAMES =>
        nextId <= I /\ Cardinality(DOMAIN games) < L
  /\ Apply(AppCreateGameR(s))
  /\ UNCHANGED <<variant, logging, now, connected, nextSock>>

\* socket.on('joinGame', gameId)
AppJoinGameR(s, g) ==
  IF g \in DOMAIN games /\ ~Seated(games[g], s)
     /\ games[g].white = Null /\ games[g].black # Null
  THEN Result([games EXCEPT ![g].lastActivityTime = now], rooms, nextId,
              <<Msg("error", {s}, g, "Unable to join game")>>)
  ELSE JoinGameR(s, g)

AppJoinGame(s, g) ==
  /\ variant = "app"
  /\ s \in connected
  /\ Apply(AppJoinGameR(s, g))
  /\ UNCHANGED <<variant, logging, now, connected, nextSock>>

\* the gameOver event of makeMove, if any
AppGameOverMsgs(g, pos, to) ==
  IF IsCheckmate(pos)
  THEN <<Msg("gameOver", to, g, IF pos.turn = "w" THEN "black" ELSE "white")>>
  ELSE IF IsDraw(pos) THEN <<Msg("gameOver", to, g, "draw")>>
  ELSE <<>>

\* socket.on('makeMove', {gameId, from, to})
AppMakeMoveR(s, g, m) ==
  IF g \notin DOMAIN games
  THEN Result(games, rooms, nextId, <<Msg("error", {s}, g, "Game not found")>>)
  ELSE LET game == [games[g] EXCEPT !.lastActivityTime = now] IN
       IF (game.position.turn = "w" /\ game.white # s) \/ (game.position.turn # "w" /\ game.black # s)
       THEN Result([games EXCEPT ![g] = game], rooms, nextId,
                   <<Msg("error", {s}, g, "Not your turn")>>)
       ELSE IF ~Legal(game.position, m)
       THEN Result([games EXCEPT ![g] = game], rooms, nextId,
                   <<Msg("error", {s}, g, "Invalid move")>>)
       ELSE LET pos == ApplyMove(game.position, m) IN
            Result([games EXCEPT ![g] =
                      [game EXCEPT !.position = pos,
                                   !.moveHistory = Append(@, m),
                                   !.status = StatusAfterMove(@, pos)]],
                   rooms, nextId,
                   <<Msg("moveMade", Room(rooms, g), g, m)>>
                     \o AppGameOverMsgs(g, pos, Room(rooms, g)))

AppMakeMove(s, g, m) ==
  /\ variant = "app"
  /\ s \in connected
  /\ Accepts(s, g, m) => games[g].position.ply < MaxMoves
  /\ Apply(AppMakeMoveR(s, g, m))
  /\ UNCHANGED <<variant, logging, now, connected, nextSock>>

AppActionTypes ==
  {"move", "resign", "request_rematch", "accept_rematch", "decline_rematch", "leave_game"}

\* whiteSocket.leave(gameId); whiteSocket.join(newGameId), for a seat's
\* socket id (or null)
MoveIfConnected(rs, old, new, id) ==
  IF id # Null /\ id \in connected THEN JoinRoom(LeaveRoom(rs, old, id), new, id) ELSE rs

\* game_action, case 'accept_rematch'
AcceptRematchR(s, g) ==
  LET game == games[g]
      new == nextId
      rs == MoveIfConnected(MoveIfConnected(rooms, g, new, game.white), g, new, game.black)
  IN Result(Del(Put(games, new, RematchGame(game, now)), g), rs, nextId + 1,
            <<Msg("rematch_accepted", Room(rs, g), new, "")>>)

\* game_action, case 'move': the game_update it broadcasts
AppActionMoveR(s, g, m) ==
  LET game == games[g] IN
  IF ~Legal(game.position, m)
  THEN Result(games, rooms, nextId, <<Msg("error", {s}, g, "Failed to handle game action")>>)
  ELSE LET pos == ApplyMove(game.position, m) IN
       Result([games EXCEPT ![g] =
                 [game EXCEPT !.position = pos, !.status = StatusAfterMove(@, pos)]],
              rooms, nextId,
              <<Msg("move", Room(rooms, g), g, m)>>)

\* socket.on('game_action', {type, gameId, move, player})
AppGameActionR(s, g, type, m, player) ==
  IF g \notin DOMAIN games THEN Result(games, rooms, nextId, <<>>)
  ELSE IF type = "move" THEN AppActionMoveR(s, g, m)
  ELSE IF type = "resign"
  THEN Result([games EXCEPT ![g].status = "completed"], rooms, nextId,
              <<Msg("resign", Room(rooms, g), g, player)>>)
  ELSE IF type = "request_rematch"
  THEN Result(games, rooms, nextId, <<Msg("rematch_requested", Room(rooms, g), g, player)>>)
  ELSE IF type = "accept_rematch" THEN AcceptRematchR(s, g)
  ELSE IF type = "decline_rematch"
  THEN Result(games, rooms, nextId, <<Msg("rematch_declined", Room(rooms, g), g, player)>>)
  ELSE LET left == Unseat(games[g], s)
           rs == LeaveRoom(rooms, g, s)
       IN IF left.white = Null /\ left.black = Null
          THEN Result(Del(games, g), rs, nextId, <<>>)
          ELSE Result([games EXCEPT ![g] = [left EXCEPT !.status = "waiting"]],
                      rs, nextId, <<Msg("player_left", Room(rs, g), g, "")>>)

AppGameAction(s, g, type, m, player, I) ==
  /\ variant = "app"
  /\ s \in connected
  /\ (g \in DOMAIN games /\ type = "accept_rematch") => nextId <= I
  /\ (g \in DOMAIN games /\ type = "move" /\ Legal(games[g].position, m)) =>
        games[g].position.ply < MaxMoves
  /\ Apply(AppGameActionR(s, g, type, m, player))
  /\ UNCHANGED <<variant, logging, now, connected, nextSock>>

\* the compiled server with N connections, I ids, L live sessions
NextApp(N, I, L) ==
  \/ Connect(N)
  \/ \E s \in 1..N : AppCreateGame(s, I, L)
  \/ \E s \in 1..N, g \in 1..I : AppJoinGame(s, g)
  \/ \E s \in 1..N, g \in 1..I, m \in MoveSpecs : AppMakeMove(s, g, m)
  \/ \E s \in 1..N, g \in 1..I : RequestRematch(s, g, I)
  \/ \E s \in 1..N, g \in 1..I, m \in MoveSpecs : AppGameAction(s, g, "move", m, "white", I)
  \/ \E s \in 1..N, g \in 1..I, ty \in AppActionTypes \ {"move"}, p \in Players :
        AppGameAction(s, g, ty, "n", p, I)
  \/ \E s \in 1..N, g \in 1..I : LeaveGame(s, g)
  \/ \E s \in 1..N : Disconnect(s)
  \/ CleanupGames

\* the compiled server, the clock stopped
SpecApp == InitOf("app", FALSE) /\ [][NextApp(NumSockets, MaxIds, MaxLive)]_vars

\* ------------------------------------------------- WebSocket server "ws"
CLIENT_TIMEOUT == 2

\* what a handler of the WebSocket server does
WsResult(gs, cl, o) == [games |-> gs, clients |-> cl, out |-> o]

WsApply(r) ==
  /\ games' = r.games
  /\ clients' = r.clients
  /\ UNCHANGED <<rooms, nextId>>
  /\ IF logging
     THEN Logged(r.out, r.games, DOMAIN games \cup DOMAIN r.games,
                 [g \in DOMAIN games \cup DOMAIN r.games |->
                    {c \in DOMAIN clients : clients[c].gameId = g}],
                 [g \in DOMAIN games \cup DOMAIN r.games |->
                    {c \in DOMAIN r.clients : r.clients[c].gameId = g}])
     ELSE UNCHANGED <<accepted, received>>

\* wss.on('connection'): a fresh client id, registered in clients
WsConnect(N) ==
  /\ variant = "ws"
  /\ nextSock <= N
  /\ connected' = connected \cup {nextSock}
  /\ nextSock' = nextSock + 1
  /\ clients' = Put(clients, nextSock, [gameId |-> Null, lastPing |-> Null])
  /\ UNCHANGED <<variant, logging, now, nextId, games, rooms, accepted, received>>

\* the clients broadcastGameState(gameId) sends to
WsSubscribers(cl, g) == {c \in DOMAIN cl : cl[c].gameId = g}

\* a broadcast that reaches the two seats only
BroadcastToSeats(gs, cl, g, info) ==
  IF g \notin DOMAIN gs THEN <<>>
  ELSE <<Msg("gameState", WsSubscribers(cl, g) \cap {gs[g].white, gs[g].black}, g, info)>>

\* broadcastGameState(gameId) with the registry gs and the clients cl
BroadcastGameState(gs, cl, g, info) ==
  IF g \notin DOMAIN gs THEN <<>>
  ELSE <<Msg("gameState", WsSubscribers(cl, g), g, info)>>

WsNewGame(t) ==
  [position |-> StartPos, white |-> Null, black |-> Null, spectators |-> {},
   lastActivity |-> t]

\* the seat or spectator slot the joining client gets
WsSeat(game, c) ==
  IF game.white = Null THEN [game EXCEPT !.white = c]
  ELSE IF game.black = Null THEN [game EXCEPT !.black = c]
  ELSE [game EXCEPT !.spectators = @ \cup {c}]

\* case 'join'
WsJoinR(c, g) ==
  IF c \notin DOMAIN clients THEN WsResult(games, clients, <<>>)
  ELSE LET game == IF g \in DOMAIN games THEN games[g] ELSE WsNewGame(now)
           cl == [clients EXCEPT ![c].gameId = g]
           gs == Put(games, g, [WsSeat(game, c) EXCEPT !.lastActivity = now])
       IN WsResult(gs, cl, BroadcastGameState(gs, cl, g, ""))

WsJoin(c, g) ==
  /\ variant = "ws"
  /\ c \in connected
  /\ WsApply(WsJoinR(c, g))
  /\ UNCHANGED <<variant, logging, now, connected, nextSock>>

\* case 'move'
WsMoveR(c, g, m) ==
  IF c \notin DOMAIN clients \/ g \notin DOMAIN games THEN WsResult(games, clients, <<>>)
  ELSE LET game == games[g]
           isWhite == game.white = c
           isBlack == game.black = c
       IN IF ~isWhite /\ ~isBlack THEN WsResult(games, clients, <<>>)
          ELSE IF (game.position.turn = "w" /\ ~isWhite) \/ (game.position.turn = "b" /\ ~isBlack)
          THEN WsResult(games, clients, <<Msg("error", {c}, g, "Not your turn")>>)
          ELSE IF ~Legal(game.position, m)
          THEN WsResult(games, clients, <<Msg("error", {c}, g, "Invalid move")>>)
          ELSE LET gs == [games EXCEPT ![g] =
                            [game EXCEPT !.position = ApplyMove(@, m), !.lastActivity = now]]
               IN WsResult(gs, clients, BroadcastGameState(gs, clients, g, m))

\* the move is accepted by case 'move'
WsAccepts(c, g, m) ==
  /\ c \in DOMAIN clients
  /\ g \in DOMAIN games
  /\ \/ games[g].position.turn = "w" /\ games[g].white = c
     \/ games[g].position.turn = "b" /\ games[g].black = c
  /\ Legal(games[g].position, m)

WsMove(c, g, m) ==
  /\ variant = "ws"
  /\ c \in connected
  /\ WsAccepts(c, g, m) => games[g].position.ply < MaxMoves
  /\ WsApply(WsMoveR(c, g, m))
  /\ UNCHANGED <<variant, logging, now, connected, nextSock>>

\* case 'pong'
WsPongR(c) ==
  IF c \notin DOMAIN clients THEN WsResult(games, clients, <<>>)
  ELSE WsResult(games, [clients EXCEPT ![c].lastPing = now], <<>>)

WsPong(c) ==
  /\ variant = "ws"
  /\ c \in connected
  /\ WsApply(WsPongR(c))
  /\ UNCHANGED <<variant, logging, now, connected, nextSock>>

\* the seat or spectator slot given up in ws.on('close')
WsUnseat(game, c) ==
  IF game.white = c THEN [game EXCEPT !.white = Null]
  ELSE IF game.black = c THEN [game EXCEPT !.black = Null]
  ELSE [game EXCEPT !.spectators = @ \ {c}]

\* ws.on('close'); the closed connection itself receives nothing
WsCloseR(c) ==
  IF c \in DOMAIN clients /\ clients[c].gameId # Null /\ clients[c].gameId \in DOMAIN games
  THEN LET g == clients[c].gameId
           gs == [games EXCEPT ![g] = WsUnseat(@, c)]
       IN WsResult(gs, Del(clients, c),
                   <<Msg("gameState", WsSubscribers(clients, g) \ {c}, g, "")>>)
  ELSE WsResult(games, Del(clients, c), <<>>)

WsClose(c) ==
  /\ variant = "ws"
  /\ c \in connected
  /\ connected' = connected \ {c}
  /\ WsApply(WsCloseR(c))
  /\ UNCHANGED <<variant, logging, now, nextSock>>

\* the setInterval that deletes inactive games
WsCleanupR ==
  WsResult([g \in {x \in DOMAIN games : ~(now - games[x].lastActivity > CLIENT_TIMEOUT)} |-> games[g]],
           clients, <<>>)

WsCleanup ==
  /\ variant = "ws"
  /\ WsApply(WsCleanupR)
  /\ UNCHANGED <<variant, logging, now, connected, nextSock>>

\* the ping sweep terminates this client
WsTimedOut(client, t) == client.lastPing # Null /\ t - client.lastPing > CLIENT_TIMEOUT

\* the setInterval that pings the clients and terminates the silent ones
WsPingSweepR ==
  LET kept == {c \in DOMAIN clients : ~WsTimedOut(clients[c], now)} IN
  WsResult(games, [c \in kept |-> clients[c]],
           IF kept = {} THEN <<>> ELSE <<Msg("ping", kept, Null, "")>>)

WsPingSweep ==
  /\ variant = "ws"
  /\ WsApply(WsPingSweepR)
  /\ UNCHANGED <<variant, logging, now, connected, nextSock>>

\* the WebSocket server with N connections and I game ids
NextWs(N, I) ==
  \/ WsConnect(N)
  \/ \E c \in 1..N, g \in 1..I : WsJoin(c, g)
  \/ \E c \in 1..N, g \in 1..I, m \in MoveSpecs : WsMove(c, g, m)
  \/ \E c \in 1..N : WsPong(c)
  \/ \E c \in 1..N : WsClose(c)
  \/ WsCleanup
  \/ WsPingSweep

NextWsTime == Tick(WsMaxTime) \/ NextWs(WsSockets, WsIds)

\* the WebSocket server and the passage of time
SpecWs == InitOf("ws", FALSE) /\ [][NextWsTime]_vars

\* the three servers with the logs kept, the clock stopped
NextLog ==
  \/ NextSio(LogSockets, LogIds, MaxLive)
  \/ NextApp(LogSockets, LogIds, MaxLive)
  \/ NextWs(LogSockets, LogIds)

SpecLog ==
  /\ InitOf("sio", TRUE) \/ InitOf("app", TRUE) \/ InitOf("ws", TRUE)
  /\ [][NextLog]_vars

\* the two socket.io servers, the clock stopped
NextIo ==
  \/ NextSio(NumSockets, MaxIds, MaxLive)
  \/ NextApp(NumSockets, MaxIds, MaxLive)

SpecIo ==
  /\ InitOf("sio", FALSE) \/ InitOf("app", FALSE)
  /\ [][NextIo]_vars

\* creation, join, leave and disconnect of part_002 with two live sessions,
\* the clock stopped
NextDrop ==
  \/ Connect(NumSockets)
  \/ \E s \in 1..NumSockets : CreateGame(s, SweepIds, SweepIds)
  \/ \E s \in 1..NumSockets, g \in 1..SweepIds : JoinGame(s, g)
  \/ \E s \in 1..NumSockets, g \in 1..SweepIds : LeaveGame(s, g)
  \/ \E s \in 1..NumSockets : Disconnect(s)

SpecDrop == InitOf("sio", FALSE) /\ [][NextDrop]_vars

\* createGame, joinGame and makeMove of part_002 with three sockets and the
\* passage of time
NextJoinTime ==
  \/ Tick(MaxTime)
  \/ Connect(NumSockets)
  \/ \E s \in 1..NumSockets : CreateGame(s, LogIds, MaxLive)
  \/ \E s \in 1..NumSockets, g \in 1..LogIds : JoinGame(s, g)
  \/ \E s \in 1..NumSockets, g \in 1..LogIds, m \in MoveSpecs : MakeMove(s, g, m)

SpecJoinTime == InitOf("sio", FALSE) /\ [][NextJoinTime]_vars

\* makeMove explored up to K accepted moves per session
MakeMoveWithin(s, g, m, K) ==
  /\ variant = "sio"
  /\ s \in connected
  /\ Accepts(s, g, m) => games[g].position.ply < K
  /\ Apply(MakeMoveR(s, g, m))
  /\ UNCHANGED <<variant, logging, now, connected, nextSock>>

\* part_002 with games played to their end: moves, resignations, leaving
\* and disconnects in one session at a time
NextEnd ==
  \/ Connect(TimeSockets)
  \/ \E s \in 1..TimeSockets : CreateGame(s, LogIds, MaxLive)
  \/ \E s \in 1..TimeSockets, g \in 1..LogIds : JoinGame(s, g)
  \/ \E s \in 1..TimeSockets, g \in 1..LogIds, m \in MoveSpecs : MakeMoveWithin(s, g, m, EndMoves)
  \/ \E s \in 1..TimeSockets, g \in 1..LogIds, ty \in ActionTypes, p \in Players : GameAction(s, g, ty, p)
  \/ \E s \in 1..TimeSockets : Disconnect(s)

SpecEnd == InitOf("sio", FALSE) /\ [][NextEnd]_vars

\* part_002 with a full registry: sessions are created, joined, left and
\* replaced by their rematch successors
NextCap ==
  \/ Connect(TimeSockets)
  \/ \E s \in 1..TimeSockets : CreateGame(s, CapIds, SweepIds)
  \/ \E s \in 1..TimeSockets, g \in 1..CapIds : JoinGame(s, g)
  \/ \E s \in 1..TimeSockets, g \in 1..CapIds : RequestRematch(s, g, CapIds)
  \/ \E s \in 1..TimeSockets, g \in 1..CapIds : LeaveGame(s, g)

SpecCap == InitOf("sio", FALSE) /\ [][NextCap]_vars

\* ------------------- socket.io server "stash" (src/chess-app/server/server.ts,
\* lines 1-641 with the 'Stashed changes' side of its conflicts; createGame
\* and joinGame are those of part_002, createGame also seeds positionHistory)

\* the first four FEN fields of a position: the move counters are dropped
PositionKey(pos) == <<pos.wk, pos.bk, pos.turn, pos.end>>

\* positions.some(pos => positions.filter(p => p === pos).length >= 3)
IsThreefoldRepetition(hist) ==
  \E i \in 1..Len(hist) :
    Cardinality({j \in 1..Len(hist) : PositionKey(hist[j]) = PositionKey(hist[i])}) >= 3

\* the gameStatus of makeMove: checkmate, stalemate or insufficient material
\* ("draw"), threefold repetition, in this order; "none" is null
GameStatusOf(pos, hist) ==
  IF IsCheckmate(pos) THEN "checkmate"
  ELSE IF IsDraw(pos) THEN "draw"
  ELSE IF IsThreefoldRepetition(hist) THEN "threefold"
  ELSE "none"

StashCreateGameR(s) ==
  IF Cardinality(DOMAIN games) >= MAX_CONCURRENT_GAMES
  THEN Result(games, rooms, nextId, <<Msg("error", {s}, Null, "capacity")>>)
  ELSE LET rs == JoinRoom(rooms, nextId, s) IN
       Result(Put(games, nextId, [positionHistory |-> <<StartPos>>] @@ NewGame(s, now)),
              rs, nextId + 1,
              <<Msg("gameCreated", Room(rs, nextId), nextId, "")>>)

StashCreateGame(s, I, L) ==
  /\ variant = "stash"
  /\ s \in connected
  /\ Cardinality(DOMAIN games) < MAX_CONCURRENT_GAMES =>
        nextId <= I /\ Cardinality(DOMAIN games) < L
  /\ Apply(StashCreateGameR(s))
  /\ UNCHANGED <<variant, logging, now, connected, nextSock>>

StashJoinGame(s, g) ==
  /\ variant = "stash"
  /\ s \in connected
  /\ Apply(JoinGameR(s, g))
  /\ UNCHANGED <<variant, logging, now, connected, nextSock>>

\* socket.on('makeMove', {gameId, from, to}): no turn check, no status check
StashMakeMoveR(s, g, m) ==
  IF g \notin DOMAIN games
  THEN Result(games, rooms, nextId, <<Msg("error", {s}, g, "Game not found")>>)
  ELSE LET game == games[g] IN
       IF ~Legal(game.position, m)
       THEN Result(games, rooms, nextId, <<Msg("error", {s}, g, "Invalid move")>>)
       ELSE LET pos == ApplyMove(game.position, m)
                hist == Append(game.positionHistory, pos)
                gameStatus == GameStatusOf(pos, hist)
            IN Result([games EXCEPT ![g] =
                         [game EXCEPT !.position = pos,
                                      !.positionHistory = hist,
                                      !.moveHistory = Append(@, m),
                                      !.lastActivityTime = now,
                                      !.status = IF gameStatus = "none" THEN @ ELSE "completed"]],
                      rooms, nextId,
                      <<[gameStatus |-> gameStatus] @@ Msg("moveMade", Room(rooms, g), g, m)>>)

StashMakeMove(s, g, m) ==
  /\ variant = "stash"
  /\ s \in connected
  /\ (g \in DOMAIN games /\ Legal(games[g].position, m)) => games[g].position.ply < RepMoves
  /\ Apply(StashMakeMoveR(s, g, m))
  /\ UNCHANGED <<variant, logging, now, connected, nextSock>>

NextRep ==
  \/ Connect(TimeSockets)
  \/ \E s \in 1..TimeSockets : StashCreateGame(s, TimeIds, TimeIds)
  \/ \E s \in 1..TimeSockets, g \in 1..TimeIds : StashJoinGame(s, g)
  \/ \E s \in 1..TimeSockets, g \in 1..TimeIds, m \in MoveSpecs : StashMakeMove(s, g, m)

SpecRep == InitOf("stash", FALSE) /\ [][NextRep]_vars

\* =================================================================== claims

\* C1: in every reachable state no identity holds both the white and the
\* black seat of the same session (a session has two seats, so it never has
\* more than two seated occupants).
C1_SeatsDistinct ==
  \A g \in DOMAIN games :
    /\ games[g].white # Null => games[g].white # games[g].black
    /\ Cardinality({games[g].white, games[g].black} \ {Null}) <= 2

\* the side to move of session g
SideToMove(g) == games[g].position.turn

\* identity s holds the seat matching the side to move of session g
HoldsTurnSeat(s, g) ==
  \/ SideToMove(g) = "w" /\ games[g].white = s
  \/ SideToMove(g) = "b" /\ games[g].black = s

\* C2: a move sent by an identity that does not hold the seat matching the
\* side to move is not applied (position, history and clock of the session
\* are unchanged) and the sender is answered with a 'Not your turn' error.
\* Stated for the WebSocket server's case 'move'.
C2_WsNotYourTurn ==
  variant = "ws" =>
    \A c \in DOMAIN clients, g \in DOMAIN games, m \in MoveSpecs :
      ~HoldsTurnSeat(c, g) =>
        /\ WsMoveR(c, g, m).games[g] = games[g]
        /\ WsMoveR(c, g, m).out = <<Msg("error", {c}, g, "Not your turn")>>

\* the order of the status values
StatusRank(st) == CASE st = "waiting" -> 0 [] st = "active" -> 1 [] OTHER -> 2

\* C3: the status of an existing session only moves forward along
\* waiting -> active -> completed: no step takes a session that stays in
\* the registry from completed to active or waiting, or from active to
\* waiting.
C3_StatusMonotonic ==
  [][\A g \in DOMAIN games \cap DOMAIN games' :
        StatusRank(games[g].status) <= StatusRank(games'[g].status)]_vars

\* the time left to the side to move of session g, whose clock is running
Remaining(g) ==
  LET clock == games[g].clock
  IN (IF SideToMove(g) = "w" THEN clock.white ELSE clock.black)
       - (now - clock.lastMoveTime)

\* C4: an active session whose clock is running never has the side to move
\* past zero remaining time: the server completes the session when the
\* remaining time reaches 0, even if no further move is submitted.
C4_FlagFallCompletes ==
  variant = "sio" =>
    \A g \in DOMAIN games :
      (games[g].status = "active" /\ games[g].clock.present
         /\ games[g].clock.lastMoveTime # Null) => Remaining(g) >= 0

\* the broadcast group of session g
Subscribers(g) == IF variant = "ws" THEN WsSubscribers(clients, g) ELSE Room(rooms, g)

\* the identities that can send a message
Senders == IF variant = "ws" THEN DOMAIN clients ELSE connected

\* what the move handlers of the running server answer to move m of s in g
MoveResults(s, g, m) ==
  CASE variant = "sio" -> {[games |-> MakeMoveR(s, g, m).games, out |-> MakeMoveR(s, g, m).out]}
    [] variant = "app" ->
         {[games |-> AppMakeMoveR(s, g, m).games, out |-> AppMakeMoveR(s, g, m).out],
          [games |-> AppGameActionR(s, g, "move", m, "white").games,
           out |-> AppGameActionR(s, g, "move", m, "white").out]}
    [] OTHER -> {[games |-> WsMoveR(s, g, m).games, out |-> WsMoveR(s, g, m).out]}

\* the answer r applied move m to session g
Applied(r, g) ==
  g \in DOMAIN games /\ g \in DOMAIN r.games
    /\ r.games[g].position # games[g].position

\* an applied move is broadcast once, to the whole group; any other answer
\* holds no move broadcast
BroadcastOk(r, g, m) ==
  LET casts == SelectSeq(r.out, IsMoveMsg)
  IN IF Applied(r, g)
     THEN /\ Len(casts) = 1
          /\ casts[1].g = g /\ casts[1].info = m /\ casts[1].to = Subscribers(g)
     ELSE casts = <<>>

IsSuffix(a, b) ==
  Len(a) <= Len(b) /\ a = SubSeq(b, Len(b) - Len(a) + 1, Len(b))

\* C5: every accepted move is broadcast to the whole broadcast group of its
\* session and a rejected move is never broadcast; what a subscriber has
\* received since it subscribed is the tail of the sequence of accepted
\* moves, so two subscribers of a session receive the same broadcasts in the
\* order of acceptance.
C5_MoveBroadcasts ==
  /\ \A s \in Senders, g \in DOMAIN games \cup {nextId}, m \in MoveSpecs :
        \A r \in MoveResults(s, g, m) : BroadcastOk(r, g, m)
  /\ logging =>
        \A g \in DOMAIN games : \A s \in Subscribers(g) :
          /\ <<s, g>> \in DOMAIN received
          /\ IsSuffix(received[<<s, g>>], Get(accepted, g))

\* two moves were accepted: one subscriber received both, another one, who
\* subscribed after the first move, received the second only
C5_Witness ==
  /\ logging
  /\ \E g \in DOMAIN games : \E s1, s2 \in Subscribers(g) :
        /\ Len(Get(accepted, g)) = 2
        /\ Get(received, <<s1, g>>) = accepted[g]
        /\ Get(received, <<s2, g>>) = <<accepted[g][2]>>

\* the three removal rules of the sweep, each on its own
SweepRule(game, t) ==
  \/ game.status = "completed" /\ t - game.lastActivityTime > COMPLETED_GAME_EXPIRY_TIME
  \/ t - game.lastActivityTime > INACTIVE_GAME_EXPIRY_TIME
  \/ t - game.createdAt > GAME_EXPIRY_TIME

\* C6: one sweep at time now removes exactly the sessions that are completed
\* and idle for more than COMPLETED_GAME_EXPIRY_TIME, or idle for more than
\* INACTIVE_GAME_EXPIRY_TIME, or older than GAME_EXPIRY_TIME; every other
\* session stays in the registry unchanged.
C6_SweepExact ==
  variant \in {"sio", "app"} =>
    /\ DOMAIN CleanupGamesR.games \subseteq DOMAIN games
    /\ \A g \in DOMAIN games :
          /\ g \notin DOMAIN CleanupGamesR.games <=> SweepRule(games[g], now)
          /\ g \in DOMAIN CleanupGamesR.games => CleanupGamesR.games[g] = games[g]

\* a sweep that removes one session by its age alone and keeps another
C6_Witness ==
  \E g, h \in DOMAIN games :
    /\ g \notin DOMAIN CleanupGamesR.games
    /\ games[g].status # "completed"
    /\ now - games[g].lastActivityTime <= INACTIVE_GAME_EXPIRY_TIME
    /\ h \in DOMAIN CleanupGamesR.games

\* C7: with time advancing and the sweep run again and again, every session
\* placed in the registry is eventually removed from it, whatever its status
\* and however often moves and joins refresh its activity time.
C7_EventuallyRemoved ==
  \A g \in 1..TimeIds : (g \in DOMAIN games) ~> (g \notin DOMAIN games)

\* a session whose activity time was refreshed at this very time, and that
\* the sweep removes all the same
C7_Witness ==
  \E g \in DOMAIN games :
    /\ games[g].lastActivityTime = now
    /\ games[g].lastActivityTime > games[g].createdAt
    /\ games[g].status = "active"
    /\ g \notin DOMAIN CleanupGamesR.games

\* what the handlers that accept a rematch answer to s for session g
RematchResults(s, g) ==
  IF variant = "sio" THEN {RequestRematchR(s, g)}
  ELSE {RequestRematchR(s, g), AppGameActionR(s, g, "accept_rematch", "n", "white")}

\* C8: after a rematch is accepted for a session with white = A and
\* black = B, the registry holds a new session, under an id that is not the
\* old one, whose seats are white = B and black = A, and the old session is
\* completed or gone from the registry.
C8_RematchSwapsSeats ==
  variant \in {"sio", "app"} =>
    \A s \in connected, g \in DOMAIN games : \A r \in RematchResults(s, g) :
      /\ nextId # g /\ nextId \notin DOMAIN games /\ nextId \in DOMAIN r.games
      /\ r.games[nextId].white = games[g].black
      /\ r.games[nextId].black = games[g].white
      /\ g \notin DOMAIN r.games \/ r.games[g].status = "completed"

\* a session that a rematch created from a session with both seats taken
\* (on part_002 only a rematch creates a session without a clock)
C8_Witness ==
  /\ variant = "sio"
  /\ \E g \in DOMAIN games :
        /\ ~games[g].clock.present
        /\ games[g].white # Null /\ games[g].black # Null
        /\ \A h \in 1..(g - 1) : h \notin DOMAIN games

\* the connected identities seated in session g
SeatedConnected(g) == ({games[g].white, games[g].black} \ {Null}) \cap connected

\* the sessions with two distinct connected identities on their seats
FullSessions == {g \in DOMAIN games : Cardinality(SeatedConnected(g)) = 2}

\* C9: after a rematch accept has been processed for a session with two
\* connected seated identities, both are subscribed to the broadcast group
\* of the new session and neither is still subscribed to the group of the
\* old one.
C9_RematchMigratesRooms ==
  variant = "sio" =>
    \A s \in connected, g \in FullSessions : \A p \in SeatedConnected(g) :
      /\ p \in Room(RequestRematchR(s, g).rooms, nextId)
      /\ p \notin Room(RequestRematchR(s, g).rooms, g)

\* C10: on rematch accept of a session with two connected seated identities
\* the message that carries the snapshot of the new session is delivered to
\* both of them (each is subscribed to the old session).
C10_SnapshotDelivered ==
  variant = "app" =>
    \A s \in connected, g \in FullSessions :
      \A p \in SeatedConnected(g) \cap Room(rooms, g) :
        \E i \in 1..Len(AppGameActionR(s, g, "accept_rematch", "n", "white").out) :
          /\ AppGameActionR(s, g, "accept_rematch", "n", "white").out[i].ev = "rematch_accepted"
          /\ p \in AppGameActionR(s, g, "accept_rematch", "n", "white").out[i].to

\* C11: a successor session is created only after a seated identity has
\* requested a rematch and the other seated identity has accepted it: one
\* request_rematch message alone, whoever sends it, creates no session.
C11_RequestAloneCreatesNothing ==
  variant = "sio" =>
    \A s \in connected, g \in DOMAIN games :
      DOMAIN RequestRematchR(s, g).games \subseteq DOMAIN games

\* C12: the rematch request of a seated identity is delivered as an offer
\* to the identity in the other seat only, not to the requester and not to
\* the spectators.
C12_OfferToOtherSeatOnly ==
  variant = "app" =>
    \A s \in connected, g \in FullSessions, p \in Players :
      s \in SeatedConnected(g) =>
        \A i \in 1..Len(AppGameActionR(s, g, "request_rematch", "n", p).out) :
          AppGameActionR(s, g, "request_rematch", "n", p).out[i].to
            = SeatedConnected(g) \ {s}


\* the colour of the seat opposite to the seat s holds in game
OppositeColour(game, s) == IF game.white = s THEN "black" ELSE "white"

\* the identity on the seat opposite to the seat s holds in game
Opponent(game, s) == IF game.white = s THEN game.black ELSE game.white

\* C13: when a seated identity disconnects, every active session in which
\* it holds a seat is completed by that same step, and the opposite seat is
\* announced as winner to the session's group, the connected opponent
\* included.
C13_DisconnectForfeits ==
  variant = "sio" =>
    \A s \in connected, g \in DOMAIN games :
      (s \in {games[g].white, games[g].black} /\ games[g].status = "active") =>
        /\ DisconnectR(s).games[g].status = "completed"
        /\ \E i \in 1..Len(DisconnectR(s).out) :
             LET msg == DisconnectR(s).out[i] IN
             /\ msg.ev = "gameOver" /\ msg.g = g
             /\ msg.info = OppositeColour(games[g], s)
             /\ Opponent(games[g], s) \in connected => Opponent(games[g], s) \in msg.to


\* the browser behind connection s: two browsers open the connections in
\* turn, and a browser that reconnects gets a new socket id
ClientOf(s) == IF s % 2 = 1 THEN "A" ELSE "B"

\* C14: when an identity whose connection was lost while it held a seat
\* joins the same session again before the session is evicted, it holds the
\* seat it held before and is sent the current session state.
C14_ReconnectResumesSeat ==
  variant = "sio" =>
    \A g \in DOMAIN games, s \in connected :
      \A o \in ({games[g].white, games[g].black} \ {Null}) \ connected :
        ClientOf(o) = ClientOf(s) =>
          /\ games[g].white = o => JoinGameR(s, g).games[g].white = s
          /\ games[g].black = o => JoinGameR(s, g).games[g].black = s
          /\ \E i \in 1..Len(JoinGameR(s, g).out) :
               /\ JoinGameR(s, g).out[i].ev = "gameJoined"
               /\ s \in JoinGameR(s, g).out[i].to


\* C15: when an identity submits again the move it has just made, the move
\* is not applied a second time: the second submission is answered with an
\* error (not your turn, or invalid move) to the sender, and the registry is
\* as it was after the first submission.
C15_NoDoubleApply ==
  [][variant = "sio" =>
       \A g \in DOMAIN games \cap DOMAIN games', s \in connected, m \in MoveSpecs :
         (/\ games'[g].position.ply = games[g].position.ply + 1
          /\ games'[g].moveHistory = <<m>>
          /\ HoldsTurnSeat(s, g)) =>
           LET again == MakeMoveR(s, g, m)' IN
           /\ again.games = games'
           /\ Len(again.out) = 1
           /\ again.out[1].ev = "error" /\ again.out[1].to = {s}
           /\ again.out[1].info \in {"Not your turn", "Invalid move"}]_vars

\* white has just made a move that the rules engine would take again, and
\* its second submission changes nothing
C15_Witness ==
  \E g \in DOMAIN games, s \in connected :
    /\ games[g].white = s /\ games[g].position.turn = "b"
    /\ games[g].position.ply = 1
    /\ Legal(games[g].position, games[g].moveHistory[1])
    /\ MakeMoveR(s, g, games[g].moveHistory[1]).games = games


\* C16: after an accepted move, if some position key occurs at least three
\* times in the positionHistory of the session, the session is completed
\* and the result reported with the move is a draw by threefold repetition.
C16_ThreefoldDraw ==
  variant = "stash" =>
    \A s \in connected, g \in DOMAIN games, m \in MoveSpecs :
      LET r == StashMakeMoveR(s, g, m) IN
      (r.games[g].position # games[g].position
         /\ IsThreefoldRepetition(r.games[g].positionHistory)) =>
        /\ r.games[g].status = "completed"
        /\ r.out[1].gameStatus = "threefold"


\* C17: createGame by s: with MAX_CONCURRENT_GAMES sessions in the registry
\* s gets a capacity error and the registry is unchanged; otherwise exactly
\* one session with a fresh id is added, with the start position, s in the
\* white seat, the black seat empty, no spectators and status waiting.
C17_CreateGame ==
  variant = "sio" =>
    \A s \in connected :
      LET r == CreateGameR(s) IN
      IF Cardinality(DOMAIN games) >= MAX_CONCURRENT_GAMES
      THEN /\ r.games = games
           /\ r.out = <<Msg("error", {s}, Null, "capacity")>>
      ELSE \E id \in DOMAIN r.games \ DOMAIN games :
             /\ DOMAIN r.games = DOMAIN games \cup {id}
             /\ \A g \in DOMAIN games : r.games[g] = games[g]
             /\ r.games[id].position = StartPos
             /\ r.games[id].white = s
             /\ r.games[id].black = Null
             /\ r.games[id].spectators = <<>>
             /\ r.games[id].status = "waiting"

\* the registry is full, one of its sessions is as createGame made it, and
\* a further createGame is refused
C17_Witness ==
  /\ variant = "sio"
  /\ Cardinality(DOMAIN games) = MAX_CONCURRENT_GAMES
  /\ \E g \in DOMAIN games :
       /\ games[g].white \in connected
       /\ games[g] = NewGame(games[g].white, now)
       /\ CreateGameR(games[g].white).out[1].ev = "error"


\* C18: a join naming a session id that is not in the registry answers the
\* requester with a not-found error, creates no session and changes no
\* existing session.
C18_JoinUnknownIsNotFound ==
  /\ variant = "sio" =>
       \A s \in connected, g \in (1..MaxIds) \ DOMAIN games :
         /\ JoinGameR(s, g).games = games
         /\ JoinGameR(s, g).out = <<Msg("error", {s}, g, "Game not found")>>
  /\ variant = "ws" =>
       \A c \in connected, g \in (1..WsIds) \ DOMAIN games :
         /\ WsJoinR(c, g).games = games
         /\ Len(WsJoinR(c, g).out) = 1
         /\ WsJoinR(c, g).out[1].ev = "error"
         /\ WsJoinR(c, g).out[1].to = {c}


\* C19: joinGame by a socket that already holds a seat of the session is
\* idempotent: seats, spectators, status, position and clock are unchanged
\* (as is every other session), the socket is in the session's room, and
\* the current snapshot (gameJoined) is sent to that socket only.
C19_RejoinIdempotent ==
  variant = "sio" =>
    \A g \in DOMAIN games, s \in connected :
      s \in {games[g].white, games[g].black} =>
        LET r == JoinGameR(s, g) IN
        /\ DOMAIN r.games = DOMAIN games
        /\ \A h \in DOMAIN games \ {g} : r.games[h] = games[h]
        /\ r.games[g].white = games[g].white
        /\ r.games[g].black = games[g].black
        /\ r.games[g].spectators = games[g].spectators
        /\ r.games[g].status = games[g].status
        /\ r.games[g].position = games[g].position
        /\ r.games[g].clock = games[g].clock
        /\ s \in Room(r.rooms, g)
        /\ r.out = <<Msg("gameJoined", {s}, g, "")>>

\* the black player of a session in play joins it again, some time after
\* the session's last activity
C19_Witness ==
  /\ variant = "sio"
  /\ \E g \in DOMAIN games :
       /\ games[g].black \in connected
       /\ games[g].white # Null
       /\ games[g].position.ply > 0
       /\ games[g].lastActivityTime < now
       /\ JoinGameR(games[g].black, g).out[1].ev = "gameJoined"
       /\ JoinGameR(games[g].black, g).games[g].lastActivityTime = now


\* C20: joinGame by a socket that holds no seat of a session with an empty
\* seat (white or black) puts the socket into an empty seat and leaves the
\* other seat alone; the status becomes active and the session is broadcast
\* to its room exactly when both seats are filled after the join.
C20_JoinTakesEmptySeat ==
  variant = "sio" =>
    \A g \in DOMAIN games, s \in connected :
      (s \notin {games[g].white, games[g].black}
         /\ Null \in {games[g].white, games[g].black}) =>
        LET r == JoinGameR(s, g)
            old == games[g]
            new == r.games[g]
            full == new.white # Null /\ new.black # Null
            cast == \E i \in 1..Len(r.out) :
                      r.out[i].ev = "gameState" /\ r.out[i].to = Room(r.rooms, g)
        IN /\ \/ old.white = Null /\ new.white = s /\ new.black = old.black
              \/ old.black = Null /\ new.black = s /\ new.white = old.white
           /\ full => new.status = "active" /\ cast
           /\ ~full => new.status = old.status /\ ~cast


\* C21: a session never has more than MAX_SPECTATORS_PER_GAME spectators; a
\* socket without a seat joining a session whose two seats are filled is
\* appended to the spectators while their number is below the cap, and is
\* answered with the capacity error, without being added, at the cap.
C21_SpectatorCap ==
  variant = "sio" =>
    \A g \in DOMAIN games :
      /\ Len(games[g].spectators) <= MAX_SPECTATORS_PER_GAME
      /\ \A s \in connected :
           (s \notin {games[g].white, games[g].black}
              /\ games[g].white # Null /\ games[g].black # Null) =>
             LET r == JoinGameR(s, g) IN
             IF Len(games[g].spectators) < MAX_SPECTATORS_PER_GAME
             THEN /\ r.games[g].spectators = Append(games[g].spectators, s)
                  /\ r.out[1] = Msg("gameJoined", {s}, g, "spectator")
             ELSE /\ r.games[g].spectators = games[g].spectators
                  /\ r.out = <<Msg("error", {s}, g, "spectator capacity")>>

\* a session with both seats filled and MAX_SPECTATORS_PER_GAME spectators,
\* the last of whom joinGame admitted, refuses a further join
C21_Witness ==
  /\ variant = "sio"
  /\ \E g \in DOMAIN games, s \in connected :
       /\ games[g].white # Null /\ games[g].black # Null
       /\ s \notin {games[g].white, games[g].black}
       /\ Len(games[g].spectators) = MAX_SPECTATORS_PER_GAME
       /\ games[g].spectators[Len(games[g].spectators)] = s
       /\ JoinGameR(s, g).out[1].ev = "error"


\* the messages of a handler that answered with an error: the error alone,
\* addressed to the sender
ErrorOnlyToSender(out, s) ==
  (\E i \in 1..Len(out) : out[i].ev = "error") =>
    Len(out) = 1 /\ out[1].to = {s}

\* C22: an error produced while handling createGame, joinGame or makeMove
\* (unknown session, not your turn, invalid move, capacity reached) is sent
\* to the socket that sent the operation only, and the failed operation
\* emits no other message.
C22_ErrorsToSenderOnly ==
  variant = "sio" =>
    \A s \in connected :
      /\ ErrorOnlyToSender(CreateGameR(s).out, s)
      /\ \A g \in 1..MaxIds :
           /\ ErrorOnlyToSender(JoinGameR(s, g).out, s)
           /\ \A m \in MoveSpecs : ErrorOnlyToSender(MakeMoveR(s, g, m).out, s)

\* a session in play with another subscriber in its room: the player who
\* just moved moves again and is told 'Not your turn', a join with an
\* unknown id is told 'Game not found'
C22_Witness ==
  /\ variant = "sio"
  /\ \E g \in DOMAIN games, s \in connected :
       /\ games[g].position.ply > 0
       /\ Seated(games[g], s)
       /\ Room(rooms, g) \ {s} # {}
       /\ MakeMoveR(s, g, "n").out = <<Msg("error", {s}, g, "Not your turn")>>
       /\ \E h \in (1..MaxIds) \ DOMAIN games :
            JoinGameR(s, h).out = <<Msg("error", {s}, h, "Game not found")>>


\* the handler answered with an error
Failed(r) == \E i \in 1..Len(r.out) : r.out[i].ev = "error"

\* C23: a joinGame or makeMove that is answered with an error leaves the
\* addressed session, its lastActivityTime included, exactly as it was.
C23_ErrorLeavesSession ==
  /\ variant = "sio" =>
       \A s \in connected, g \in DOMAIN games :
         /\ Failed(JoinGameR(s, g)) => JoinGameR(s, g).games[g] = games[g]
         /\ \A m \in MoveSpecs :
              Failed(MakeMoveR(s, g, m)) => MakeMoveR(s, g, m).games[g] = games[g]
  /\ variant = "app" =>
       \A s \in connected, g \in DOMAIN games, m \in MoveSpecs :
         Failed(AppMakeMoveR(s, g, m)) => AppMakeMoveR(s, g, m).games[g] = games[g]


\* C24: a makeMove on a session whose status is completed is answered with
\* an error and changes neither the position nor the move history nor the
\* clock of the session.
C24_NoMoveOnCompleted ==
  variant = "sio" =>
    \A g \in DOMAIN games, s \in connected, m \in MoveSpecs :
      games[g].status = "completed" =>
        LET r == MakeMoveR(s, g, m) IN
        /\ Failed(r)
        /\ r.games[g].position = games[g].position
        /\ r.games[g].moveHistory = games[g].moveHistory
        /\ r.games[g].clock = games[g].clock


\* C25: after k accepted moves in a session its moveHistory holds k
\* entries, one appended per accepted move with the earlier ones kept, so
\* white is to move exactly when moveHistory has even length.
C25_HistoryHoldsAllMoves ==
  variant = "sio" =>
    /\ \A g \in DOMAIN games :
         /\ Len(games[g].moveHistory) = games[g].position.ply
         /\ games[g].position.turn = "w" <=> Len(games[g].moveHistory) % 2 = 0
    /\ \A g \in DOMAIN games, s \in connected, m \in MoveSpecs :
         Accepts(s, g, m) =>
           MakeMoveR(s, g, m).games[g].moveHistory = Append(games[g].moveHistory, m)


\* C26: a makeMove handled while the session is waiting, or while one of
\* its seats is vacant, does not set clock.started and does not change
\* either side's remaining time.
C26_ClockInertBeforeActive ==
  variant = "sio" =>
    \A g \in DOMAIN games, s \in connected, m \in MoveSpecs :
      (games[g].status = "waiting" \/ Null \in {games[g].white, games[g].black}) =>
        LET new == MakeMoveR(s, g, m).games[g].clock
            old == games[g].clock
        IN /\ new.started = old.started
           /\ new.white = old.white
           /\ new.black = old.black


\* C27: an accepted move in an active session with both seats filled debits
\* the mover's clock by the time elapsed since the clock last changed hands
\* and leaves the opponent's time alone; for the opening move the time is
\* counted from the activation of the session, which is no later than its
\* lastActivityTime, so the debit is at least now - lastActivityTime.
C27_EveryMoveDebitsMover ==
  variant = "sio" =>
    \A g \in DOMAIN games, s \in connected, m \in MoveSpecs :
      (/\ Accepts(s, g, m)
       /\ games[g].status = "active"
       /\ games[g].clock.present
       /\ Null \notin {games[g].white, games[g].black}) =>
        LET old == games[g].clock
            new == MakeMoveR(s, g, m).games[g].clock
            white == games[g].position.turn = "w"
            mover == IF white THEN old.white - new.white ELSE old.black - new.black
            other == IF white THEN old.black - new.black ELSE old.white - new.white
        IN /\ other = 0
           /\ IF old.lastMoveTime # Null
              THEN mover = now - old.lastMoveTime
              ELSE mover >= now - games[g].lastActivityTime


\* C28: after a socket listed as a spectator disconnects, it is in the
\* spectator list of no session, and the room of every session it
\* spectated is sent a spectatorsUpdate.
C28_SpectatorGoneAfterDisconnect ==
  variant = "sio" =>
    \A s \in connected :
      LET r == DisconnectR(s) IN
      \A g \in DOMAIN games :
        InSeq(games[g].spectators, s) =>
          /\ ~InSeq(r.games[g].spectators, s)
          /\ \E i \in 1..Len(r.out) :
               /\ r.out[i].ev = "spectatorsUpdate"
               /\ r.out[i].g = g
               /\ r.out[i].to = Room(r.rooms, g)


\* the seat socket s holds in the session, "none" if it holds no seat
SeatOf(game, s) ==
  IF game.white = s THEN "white" ELSE IF game.black = s THEN "black" ELSE "none"

\* C29: a resign sent by s on session g completes g and announces as winner
\* the seat opposite to the one s holds; sent by a socket that holds no
\* seat of g it changes nothing of g and announces no winner.
C29_ResignNamesOpponent ==
  variant = "sio" =>
    \A g \in DOMAIN games, s \in connected, p \in Players :
      LET r == GameActionR(s, g, "resign", p) IN
      IF SeatOf(games[g], s) = "none"
      THEN /\ r.games[g] = games[g]
           /\ \A i \in 1..Len(r.out) : r.out[i].ev # "resign"
      ELSE /\ r.games[g].status = "completed"
           /\ \E i \in 1..Len(r.out) :
                /\ r.out[i].ev = "resign"
                /\ r.out[i].to = Room(rooms, g)
                /\ r.out[i].info = (IF SeatOf(games[g], s) = "white" THEN "Black" ELSE "White")


\* C30: when a seated socket leaves a session, by leaveGame or by a
\* game_action of type leave_game, and both seats are empty afterwards, the
\* session is no longer in the registry once the handler has returned.
C30_EmptySessionRemoved ==
  variant = "sio" =>
    \A g \in DOMAIN games, s \in connected, p \in Players :
      (Seated(games[g], s) /\ Unseat(games[g], s).white = Null
                           /\ Unseat(games[g], s).black = Null) =>
        /\ g \notin DOMAIN LeaveGameR(s, g).games
        /\ g \notin DOMAIN GameActionR(s, g, "leave_game", p).games


\* the game_over events among the messages out
GameOvers(out) == {out[i].info : i \in {j \in 1..Len(out) : out[j].ev = "game_over"}}

\* C31: after an accepted move, a checkmate completes the session and
\* announces the player who moved as winner, a draw completes it and
\* announces no winner, and otherwise the move leaves the status as it was
\* and announces nothing.
C31_MoveEndsGame ==
  variant = "sio" =>
    \A g \in DOMAIN games, s \in connected, m \in MoveSpecs :
      Accepts(s, g, m) =>
        LET r == MakeMoveR(s, g, m)
            pos == r.games[g].position
            mover == IF games[g].position.turn = "w" THEN "white" ELSE "black"
        IN IF IsCheckmate(pos)
           THEN r.games[g].status = "completed" /\ GameOvers(r.out) = {mover}
           ELSE IF IsDraw(pos)
           THEN r.games[g].status = "completed" /\ GameOvers(r.out) = {"draw"}
           ELSE r.games[g].status = games[g].status /\ GameOvers(r.out) = {}

\* a session that black's mating move has completed
C31_Witness ==
  /\ variant = "sio"
  /\ \E g \in DOMAIN games :
       /\ IsCheckmate(games[g].position)
       /\ games[g].position.turn = "w"
       /\ games[g].moveHistory = <<"q">>
       /\ games[g].status = "completed"


\* the clock of a session that has just been made
FreshClock(game) ==
  /\ game.clock.present
  /\ game.clock.white = INITIAL_TIME
  /\ game.clock.black = INITIAL_TIME
  /\ ~game.clock.started

\* C32: every session, made by createGame or as the successor session of
\* request_rematch, starts with both clocks at INITIAL_TIME and with the
\* clock not started.
C32_NewSessionClock ==
  variant = "sio" =>
    \A s \in connected :
      /\ \A id \in DOMAIN CreateGameR(s).games \ DOMAIN games :
           FreshClock(CreateGameR(s).games[id])
      /\ \A g \in DOMAIN games :
           \A id \in DOMAIN RequestRematchR(s, g).games \ DOMAIN games :
             FreshClock(RequestRematchR(s, g).games[id])


\* C33: a session whose status is active has both its white and its black
\* seat filled.
C33_ActiveHasBothSeats ==
  variant = "sio" =>
    \A g \in DOMAIN games :
      games[g].status = "active" => games[g].white # Null /\ games[g].black # Null


\* the game-ending events about session g among the messages out
EndEvents(out, g) ==
  {i \in 1..Len(out) : out[i].g = g /\ out[i].ev \in {"game_over", "resign", "gameOver"}}

\* C34: once a session is completed, no move, resign or disconnect
\* announces a further result for it.
C34_OneResultPerSession ==
  variant = "sio" =>
    \A g \in DOMAIN games, s \in connected :
      games[g].status = "completed" =>
        /\ \A m \in MoveSpecs : EndEvents(MakeMoveR(s, g, m).out, g) = {}
        /\ \A p \in Players : EndEvents(GameActionR(s, g, "resign", p).out, g) = {}
        /\ EndEvents(DisconnectR(s).out, g) = {}


\* C35: no socket is at the same time seated (white or black) in a session
\* and listed as a spectator of that session.
C35_SeatedNotSpectator ==
  variant = "sio" =>
    \A g \in DOMAIN games, s \in 1..NumSockets :
      Seated(games[g], s) => ~InSeq(games[g].spectators, s)


\* C36: a leaveGame sent by a socket that holds no seat of the session
\* leaves the session in the registry with its seats and status unchanged
\* and causes no playerDisconnected broadcast.
C36_OutsiderLeaveChangesNothing ==
  variant = "sio" =>
    \A g \in DOMAIN games, s \in connected :
      ~Seated(games[g], s) =>
        LET r == LeaveGameR(s, g) IN
        /\ g \in DOMAIN r.games
        /\ r.games[g].white = games[g].white
        /\ r.games[g].black = games[g].black
        /\ r.games[g].status = games[g].status
        /\ \A i \in 1..Len(r.out) : r.out[i].ev # "playerDisconnected"


\* C37: after every handled message the registry holds at most
\* MAX_CONCURRENT_GAMES sessions, sessions made by request_rematch counted
\* like those made by createGame.
C37_RegistryWithinCapacity ==
  variant = "sio" =>
    /\ Cardinality(DOMAIN games) <= MAX_CONCURRENT_GAMES
    /\ \A s \in connected :
         /\ Cardinality(DOMAIN CreateGameR(s).games) <= MAX_CONCURRENT_GAMES
         /\ \A g \in DOMAIN games :
              Cardinality(DOMAIN RequestRematchR(s, g).games) <= MAX_CONCURRENT_GAMES

\* a full registry one of whose sessions is a rematch successor
C37_Witness ==
  /\ variant = "sio"
  /\ Cardinality(DOMAIN games) = MAX_CONCURRENT_GAMES
  /\ \E g \in DOMAIN games, h \in DOMAIN games :
       /\ ~games[g].clock.present
       /\ games[h].clock.present
       /\ g > h


\* the registry gs keeps every session of the registry, other than g, as it is
OthersKept(gs, g) ==
  \A h \in DOMAIN games \ {g} : h \in DOMAIN gs /\ gs[h] = games[h]

\* C38: makeMove, joinGame, game_action, leaveGame and request_rematch
\* addressed to session g leave every other session of the registry
\* unchanged and add no session, except that request_rematch adds exactly
\* one.
C38_OtherSessionsUntouched ==
  variant = "sio" =>
    \A s \in connected, g \in 1..CapIds :
      /\ \A m \in MoveSpecs :
           /\ OthersKept(MakeMoveR(s, g, m).games, g)
           /\ DOMAIN MakeMoveR(s, g, m).games \subseteq DOMAIN games
      /\ OthersKept(JoinGameR(s, g).games, g)
      /\ DOMAIN JoinGameR(s, g).games \subseteq DOMAIN games
      /\ \A ty \in ActionTypes, p \in Players :
           /\ OthersKept(GameActionR(s, g, ty, p).games, g)
           /\ DOMAIN GameActionR(s, g, ty, p).games \subseteq DOMAIN games
      /\ OthersKept(LeaveGameR(s, g).games, g)
      /\ DOMAIN LeaveGameR(s, g).games \subseteq DOMAIN games
      /\ OthersKept(RequestRematchR(s, g).games, g)
      /\ Cardinality(DOMAIN RequestRematchR(s, g).games \ DOMAIN games)
           = (IF g \in DOMAIN games THEN 1 ELSE 0)


\* two sessions in the registry: one has been joined, left by its creator
\* or replaced by a rematch while the other is still as createGame made it
C38_Witness ==
  /\ variant = "sio"
  /\ \E g \in DOMAIN games, h \in DOMAIN games :
       /\ g # h
       /\ games[h] = NewGame(games[h].white, now)
       /\ games[g].black # Null
       /\ games[g].white = games[h].white
       /\ OthersKept(LeaveGameR(games[g].white, g).games, g)


\* the client c holds a seat or a spectator slot in the registry gs
WsHolds(gs, c) ==
  \E g \in DOMAIN gs : c \in {gs[g].white, gs[g].black} \cup gs[g].spectators

\* C39: when the ping sweep terminates a client that has not answered
\* within CLIENT_TIMEOUT, the seat or spectator slot the client holds is
\* released, as it is by ws.on('close') of an ordinary close.
C39_PingSweepReleasesSeat ==
  variant = "ws" =>
    \A c \in DOMAIN clients :
      WsTimedOut(clients[c], now) => ~WsHolds(WsPingSweepR.games, c)
=============================================================================
